---- MODULE Spec2Model ----
(***************************************************************************)
(* Verification model of yt-script: the transcript pipeline of             *)
(* transcripts.js (catalog building, resolution, translation), the page    *)
(* fetcher with consent negotiation, the manifest extractor, the per-video *)
(* lookup of the command line and the batch loop of the API class.         *)
(*                                                                         *)
(* The repository holds two families of the same pipeline:                 *)
(*   "axios" : src/src/transcripts.js, src/unnamed/part_003, src/src/api.js*)
(*   "fetch" : src/unnamed/part_001, src/src/cli.js, src/unnamed/part_002  *)
(* Where the two differ the model carries one definition per family and    *)
(* the variable `variant` says which family a behaviour runs.              *)
(***************************************************************************)
EXTENDS Integers, Sequences, FiniteSets, TLC

(***************************************************************************)
(* Bounds of the model.                                                    *)
(***************************************************************************)
MaxTracks == 2                \* captionTracks entries of a manifest
MaxTranslationLanguages == 2  \* translationLanguages entries of a manifest
MaxLanguages == 2             \* length of a language-preference list
MaxHeap == 3                  \* handle objects alive in one behaviour
MaxLookupTracks == 1          \* captionTracks entries of a page's manifest
MaxLookupTranslationLanguages == 1
MaxLookupLanguages == 1       \* --languages entries of a command-line lookup
MaxCues == 2                  \* <text> elements of a subtitle document
MaxVideos == 3                \* video ids of one getTranscripts call
MaxPieces == 2                \* pieces of one cue text handed to the parser
MaxParseCues == 1             \* <text> elements of a document handed to the parser

TrackCodes == {"en", "de"}          \* language codes of caption tracks
TargetCodes == {"de", "fr"}         \* language codes of translation targets
RequestCodes == {"en", "de", "fr"}  \* codes a caller may ask for
VideoIds == {"v1", "http://youtu.be/v1", "https://youtu.be/v1"}
HttpIds == {"http://youtu.be/v1"}     \* ids for which startsWith('http://') holds
HttpsIds == {"https://youtu.be/v1"}   \* ids for which startsWith('https://') holds
Variants == {"axios", "fetch"}
BatchIds == {"v1", "v2", "#7"}        \* elements of a videoIds argument
NonStringIds == {"#7"}                \* elements that are not strings

SeqsUpTo(S, n) == UNION {[1..k -> S] : k \in 0..n}

(***************************************************************************)
(* Manifests (the value extractCaptionsJson returns).  A track is          *)
(* {languageCode, name, baseUrl, kind, isTranslatable}; baseUrl and        *)
(* name.simpleText are made distinct per track by its position.            *)
(***************************************************************************)
Kinds == {"asr", "standard"}
TrackShapes == [languageCode : TrackCodes, kind : Kinds, isTranslatable : BOOLEAN]

TrackName(i) == [src |-> "captionTracks", index |-> i]
LanguageName(i) == [src |-> "translationLanguages", index |-> i]
BaseUrl(i) == [base |-> i, tlang |-> <<>>]

CaptionTracksOf(shapes) ==
    [i \in DOMAIN shapes |->
        [languageCode |-> shapes[i].languageCode,
         kind |-> shapes[i].kind,
         isTranslatable |-> shapes[i].isTranslatable,
         baseUrl |-> BaseUrl(i),
         name |-> TrackName(i)]]

TranslationLanguagesOf(codes) ==
    [i \in DOMAIN codes |-> [languageCode |-> codes[i], languageName |-> LanguageName(i)]]

\* tlDefined = FALSE: the manifest has no translationLanguages property
ManifestsWith(maxTracks, maxTranslationLanguages) ==
    {[captionTracks |-> CaptionTracksOf(shapes), translationLanguages |-> tl, tlDefined |-> TRUE] :
        shapes \in SeqsUpTo(TrackShapes, maxTracks),
        tl \in {TranslationLanguagesOf(codes) : codes \in SeqsUpTo(TargetCodes, maxTranslationLanguages)}}
    \cup
    {[captionTracks |-> CaptionTracksOf(shapes), translationLanguages |-> <<>>, tlDefined |-> FALSE] :
        shapes \in SeqsUpTo(TrackShapes, maxTracks)}

Manifests == ManifestsWith(MaxTracks, MaxTranslationLanguages)
LookupManifests == ManifestsWith(MaxLookupTracks, MaxLookupTranslationLanguages)

(***************************************************************************)
(* Errors: the kind thrown and the arguments the throw site passes.        *)
(***************************************************************************)
\* the value of a parameter the caller passed no argument for
Undefined == [defined |-> FALSE]

NoError == [name |-> "", videoId |-> "", requestedLanguageCodes |-> <<>>,
            transcriptData |-> Undefined]
Throw(name, videoId) == [name |-> name, videoId |-> videoId, requestedLanguageCodes |-> <<>>,
                         transcriptData |-> Undefined]

createNoTranscriptFound(videoId, requestedLanguageCodes, transcriptData) ==
    [name |-> "NoTranscriptFound", videoId |-> videoId,
     requestedLanguageCodes |-> requestedLanguageCodes,
     transcriptData |-> transcriptData]

\* the throw of findTranscriptHelper: two arguments, no transcriptData
ThrowNoTranscriptFound(videoId, languageCodes) ==
    createNoTranscriptFound(videoId, languageCodes, Undefined)

Return(ref) == [ok |-> TRUE, value |-> ref, error |-> NoError]
Raise(err) == [ok |-> FALSE, value |-> 0, error |-> err]

(***************************************************************************)
(* Handles.  createTranscript builds a fresh object; the caller stores it  *)
(* in `heap` and refers to it by its index.                                *)
(***************************************************************************)
translationLanguagesDictOf(translationLanguages) ==
    [c \in {translationLanguages[i].language_code : i \in DOMAIN translationLanguages} |->
        LET last == CHOOSE i \in DOMAIN translationLanguages :
                        /\ translationLanguages[i].language_code = c
                        /\ \A j \in DOMAIN translationLanguages :
                              translationLanguages[j].language_code = c => j <= i
        IN translationLanguages[last].language]

createTranscript(vid, url, language, languageCode, isGenerated, translationLanguages) ==
    [videoId |-> vid,
     url |-> url,
     language |-> language,
     languageCode |-> languageCode,
     isGenerated |-> isGenerated,
     translationLanguages |-> translationLanguages,
     translationLanguagesDict |-> translationLanguagesDictOf(translationLanguages)]

isTranslatable(h) == Len(h.translationLanguages) > 0

TlangUrl(url, languageCode) == [url EXCEPT !.tlang = Append(@, languageCode)]

\* variant of translate without the isTranslatable test
translate_noTranslatableTest(this, languageCode) ==
    IF languageCode \notin DOMAIN this.translationLanguagesDict
    THEN [ok |-> FALSE, error |-> Throw("TranslationLanguageNotAvailable", this.videoId), handle |-> this]
    ELSE [ok |-> TRUE, error |-> NoError,
          handle |-> createTranscript(this.videoId,
                                      TlangUrl(this.url, languageCode),
                                      this.translationLanguagesDict[languageCode],
                                      languageCode,
                                      TRUE,
                                      <<>>)]

\* variant of translate that keeps the source's generated flag
translate_keepGenerated(this, languageCode) ==
    IF ~isTranslatable(this)
    THEN [ok |-> FALSE, error |-> Throw("NotTranslatable", this.videoId), handle |-> this]
    ELSE IF languageCode \notin DOMAIN this.translationLanguagesDict
    THEN [ok |-> FALSE, error |-> Throw("TranslationLanguageNotAvailable", this.videoId), handle |-> this]
    ELSE [ok |-> TRUE, error |-> NoError,
          handle |-> createTranscript(this.videoId,
                                      TlangUrl(this.url, languageCode),
                                      this.translationLanguagesDict[languageCode],
                                      languageCode,
                                      this.isGenerated,
                                      <<>>)]

\* translate(): the outcome, with the derived handle when it succeeds
translate(this, languageCode) ==
    IF ~isTranslatable(this)
    THEN [ok |-> FALSE, error |-> Throw("NotTranslatable", this.videoId), handle |-> this]
    ELSE IF languageCode \notin DOMAIN this.translationLanguagesDict
    THEN [ok |-> FALSE, error |-> Throw("TranslationLanguageNotAvailable", this.videoId), handle |-> this]
    ELSE [ok |-> TRUE, error |-> NoError,
          handle |-> createTranscript(this.videoId,
                                      TlangUrl(this.url, languageCode),
                                      this.translationLanguagesDict[languageCode],
                                      languageCode,
                                      TRUE,
                                      <<>>)]

(***************************************************************************)
(* buildTranscriptList: one handle per caption track, routed by kind and   *)
(* keyed by language code; a later track of the same map and code          *)
(* overwrites the earlier one.  `base` is the heap size before the call.   *)
(***************************************************************************)
MapTranslationLanguages(cj) ==
    [i \in DOMAIN cj.translationLanguages |->
        [language |-> cj.translationLanguages[i].languageName,
         language_code |-> cj.translationLanguages[i].languageCode]]

\* variant that hands every handle the translation list
CreatedTranscripts_allTranslatable(vid, cj) ==
    [i \in DOMAIN cj.captionTracks |->
        LET caption == cj.captionTracks[i]
        IN createTranscript(vid,
                            caption.baseUrl,
                            caption.name,
                            caption.languageCode,
                            caption.kind = "asr",
                            MapTranslationLanguages(cj))]

CreatedTranscripts(vid, cj) ==
    [i \in DOMAIN cj.captionTracks |->
        LET caption == cj.captionTracks[i]
        IN createTranscript(vid,
                            caption.baseUrl,
                            caption.name,
                            caption.languageCode,
                            caption.kind = "asr",
                            IF caption.isTranslatable
                            THEN MapTranslationLanguages(cj)
                            ELSE <<>>)]

\* variant in which the first track of a code keeps its place in the map
TranscriptDict_firstWins(captionTracks, generated, base) ==
    LET routed == {i \in DOMAIN captionTracks : (captionTracks[i].kind = "asr") = generated}
    IN [c \in {captionTracks[i].languageCode : i \in routed} |->
           base + (CHOOSE i \in routed :
                      /\ captionTracks[i].languageCode = c
                      /\ \A j \in routed : captionTracks[j].languageCode = c => i <= j)]

TranscriptDict(captionTracks, generated, base) ==
    LET routed == {i \in DOMAIN captionTracks : (captionTracks[i].kind = "asr") = generated}
    IN [c \in {captionTracks[i].languageCode : i \in routed} |->
           base + (CHOOSE i \in routed :
                      /\ captionTracks[i].languageCode = c
                      /\ \A j \in routed : captionTracks[j].languageCode = c => j <= i)]

\* variant that leaves out of the generated map the codes of the other map
buildTranscriptList_exclusive(vid, cj, base) ==
    LET manual == TranscriptDict(cj.captionTracks, FALSE, base)
        generated == TranscriptDict(cj.captionTracks, TRUE, base)
    IN [videoId |-> vid,
        manuallyCreatedTranscripts |-> manual,
        generatedTranscripts |-> [c \in DOMAIN generated \ DOMAIN manual |-> generated[c]],
        translationLanguages |-> MapTranslationLanguages(cj)]

buildTranscriptList(vid, cj, base) ==
    [videoId |-> vid,
     manuallyCreatedTranscripts |-> TranscriptDict(cj.captionTracks, FALSE, base),
     generatedTranscripts |-> TranscriptDict(cj.captionTracks, TRUE, base),
     translationLanguages |-> MapTranslationLanguages(cj)]

\* captionsJson.translationLanguages.map throws a TypeError on undefined
buildTranscriptListThrows(cj) == ~cj.tlDefined

EmptyDict == [c \in {} |-> 0]
NoList == [videoId |-> "", manuallyCreatedTranscripts |-> EmptyDict,
           generatedTranscripts |-> EmptyDict, translationLanguages |-> <<>>]

(***************************************************************************)
(* Resolution.                                                             *)
(***************************************************************************)
RECURSIVE FirstDictWith(_, _)
FirstDictWith(code, transcriptDicts) ==
    IF transcriptDicts = <<>> THEN 0
    ELSE IF code \in DOMAIN Head(transcriptDicts) THEN Head(transcriptDicts)[code]
    ELSE FirstDictWith(code, Tail(transcriptDicts))

RECURSIVE FindFrom(_, _, _, _)
FindFrom(tl, languageCodes, rest, transcriptDicts) ==
    IF rest = <<>>
    THEN Raise(ThrowNoTranscriptFound(tl.videoId, languageCodes))
    ELSE LET found == FirstDictWith(Head(rest), transcriptDicts)
         IN IF found # 0 THEN Return(found)
            ELSE FindFrom(tl, languageCodes, Tail(rest), transcriptDicts)

\* variant of the helper that walks the dictionaries outermost
RECURSIVE findTranscriptHelper_dictMajor(_, _, _)
findTranscriptHelper_dictMajor(tl, languageCodes, transcriptDicts) ==
    IF transcriptDicts = <<>>
    THEN Raise(ThrowNoTranscriptFound(tl.videoId, languageCodes))
    ELSE LET r == FindFrom(tl, languageCodes, languageCodes, <<Head(transcriptDicts)>>)
         IN IF r.ok THEN r
            ELSE findTranscriptHelper_dictMajor(tl, languageCodes, Tail(transcriptDicts))

findTranscriptHelper(tl, languageCodes, transcriptDicts) ==
    FindFrom(tl, languageCodes, languageCodes, transcriptDicts)

\* variant of findTranscript that leaves the generated map out
findTranscript_manualOnly(tl, languageCodes) ==
    findTranscriptHelper(tl, languageCodes, <<tl.manuallyCreatedTranscripts>>)

findTranscript(tl, languageCodes) ==
    findTranscriptHelper(tl, languageCodes,
        <<tl.manuallyCreatedTranscripts, tl.generatedTranscripts>>)

\* variant of findGeneratedTranscript that falls back on the other map
findGeneratedTranscript_fallback(tl, languageCodes) ==
    findTranscriptHelper(tl, languageCodes,
        <<tl.generatedTranscripts, tl.manuallyCreatedTranscripts>>)

findGeneratedTranscript(tl, languageCodes) ==
    findTranscriptHelper(tl, languageCodes, <<tl.generatedTranscripts>>)

findManuallyCreatedTranscript(tl, languageCodes) ==
    findTranscriptHelper(tl, languageCodes, <<tl.manuallyCreatedTranscripts>>)

(***************************************************************************)
(* State of a caller of the transcripts module.                            *)
(***************************************************************************)
VARIABLES
    variant,         \* which family of the sources runs
    videoId,         \* the video of the lookup
    captionsJson,    \* the manifest extractCaptionsJson returned
    built,           \* TRUE once buildTranscriptList has run
    transcriptList,  \* the catalog
    heap,            \* the handle objects created so far
    created,         \* history: every handle with the attributes it was built with
    call,            \* the last call made on the catalog or on a handle
    pc,              \* where the running async function is suspended
    html,            \* the local `html` of fetchVideoHtml / fetchTranscript
    refetched,       \* history: the page the second fetchHtml returned
    requests,        \* history: the requests of the running lookup, in order
    jar,             \* the cookie store of the session
    consentCalls,    \* history: number of createConsentCookie calls
    result,          \* how the running async function settled
    options,         \* the command-line options of the lookup
    transcript,      \* the local `transcript` of fetchTranscript (a heap index)
    stages,          \* history: the stages of the lookup that ran, in order
    videoIds,        \* getTranscripts: the videoIds argument
    isArray,         \* getTranscripts: whether videoIds is an array
    continueAfterError,
    cookies,         \* getTranscripts: the cookies argument ("" for null)
    idx,             \* getTranscripts: position of the loop in videoIds
    data,            \* getTranscripts: the local `data`
    unretrievableVideos,
    lookups,         \* history: the getTranscript calls, in order
    batchResult,     \* how getTranscripts settled
    responses,       \* history: the responses to the GETs of the running handle fetch
    preserveFormatting,  \* the argument of createTranscriptParser
    plainData,       \* the argument of parse
    parsed,          \* what parse returned
    video_ids,       \* fetchAndFormatTranscripts: the video ids of the command line
    position,        \* fetchAndFormatTranscripts: position of the loop in video_ids
    transcripts,     \* fetchAndFormatTranscripts: the local `transcripts`
    exceptions,      \* fetchAndFormatTranscripts: the local `exceptions`
    output,          \* how fetchAndFormatTranscripts settled
    cookieFileRead,  \* history: whether the cookie file was read
    attempts         \* history: the fetchTranscript calls, in order

libVars == <<captionsJson, built, transcriptList, heap, created, call>>
netVars == <<pc, html, refetched, requests, jar, consentCalls, result>>
lookupVars == <<options, transcript, stages>>
batchVars == <<videoIds, isArray, continueAfterError, cookies, idx, data,
               unretrievableVideos, lookups, batchResult>>
cueVars == <<responses>>
parseVars == <<preserveFormatting, plainData, parsed>>
cliVars == <<video_ids, position, transcripts, exceptions, output, cookieFileRead, attempts>>
extVars == <<cueVars, parseVars, cliVars>>
vars == <<variant, videoId, libVars, netVars, lookupVars, batchVars, extVars>>

(***************************************************************************)
(* Pages and requests.  A page is the unescaped body of a watch-page       *)
(* response, described by the markers the code tests it for and by what    *)
(* the text after the captions marker decodes to; `serial` is the position *)
(* in `requests` of the request it answers.                                *)
(***************************************************************************)
EmptyManifest == [captionTracks |-> <<>>, translationLanguages |-> <<>>, tlDefined |-> TRUE]
NoJson == [kind |-> "none", manifest |-> EmptyManifest]

NoPage == [serial |-> 0, consent |-> FALSE, token |-> FALSE, uix |-> FALSE,
           captions |-> FALSE, recaptcha |-> FALSE, playability |-> FALSE, json |-> NoJson]

\* pages the watch URL may answer with while fetchVideoHtml runs
FetchPages ==
    {[NoPage EXCEPT !.consent = c, !.token = t, !.uix = u, !.captions = k, !.playability = k] :
        c \in BOOLEAN, t \in BOOLEAN, u \in BOOLEAN, k \in BOOLEAN}

\* WATCH_URL with the video id filled in, and the consent endpoint
WatchUrl == [base |-> 0, tlang |-> <<>>]
ConsentUrl == [base |-> -1, tlang |-> <<>>]

GetWatch(acceptLanguage) == [method |-> "GET", target |-> "watch", acceptLanguage |-> acceptLanguage,
                             cookies |-> {}, url |-> WatchUrl]
PostConsent == [method |-> "POST", target |-> "origin", acceptLanguage |-> FALSE, cookies |-> {},
                url |-> ConsentUrl]

\* the cookies a request of the session goes out with.  fetchCookie(fetch)
\* attaches the cookies of its store; the client of the axios family is a
\* plain axios.create() whose defaults.jar is only a property of the
\* configuration, so its requests go out without them.
\* a cookie, with the video whose lookup stored it
Cookie(name, vid) == [name |-> name, videoId |-> vid]

Carried(family, store) == IF family = "fetch" THEN store ELSE {}
Sent(request, family, store) == [request EXCEPT !.cookies = Carried(family, store)]

Pending == [status |-> "pending", value |-> NoPage, error |-> NoError]
Returned(v) == [status |-> "returned", value |-> v, error |-> NoError]
Thrown(err) == [status |-> "thrown", value |-> NoPage, error |-> err]

NoCall == [op |-> "none", this |-> 0, languageCodes |-> <<>>, languageCode |-> "",
           result |-> Raise(NoError)]

NetIdle ==
    /\ pc = "idle"
    /\ html = NoPage
    /\ refetched = NoPage
    /\ requests = <<>>
    /\ jar = {}
    /\ consentCalls = 0
    /\ result = Pending

NoOptions == [languages |-> <<>>, listTranscripts |-> FALSE, excludeGenerated |-> FALSE,
              excludeManuallyCreated |-> FALSE, translate |-> "", cookies |-> "", format |-> "pretty"]

EmptyData == [v \in {} |-> <<>>]
BatchPending == [status |-> "pending", data |-> EmptyData, unretrievableVideos |-> <<>>,
                 error |-> NoError]

BatchIdle ==
    /\ videoIds = <<>>
    /\ isArray = TRUE
    /\ continueAfterError = FALSE
    /\ cookies = ""
    /\ idx = 0
    /\ data = EmptyData
    /\ unretrievableVideos = <<>>
    /\ lookups = <<>>
    /\ batchResult = BatchPending

NoDocument == [wellFormed |-> FALSE, texts |-> <<>>]
NotParsed == [status |-> "pending", lines |-> <<>>]
NoOutput == [status |-> "pending", parts |-> <<>>, error |-> NoError]

ExtIdle ==
    /\ responses = <<>>
    /\ preserveFormatting = FALSE
    /\ plainData = NoDocument
    /\ parsed = NotParsed
    /\ video_ids = <<>>
    /\ position = 0
    /\ transcripts = <<>>
    /\ exceptions = <<>>
    /\ output = NoOutput
    /\ cookieFileRead = FALSE
    /\ attempts = <<>>

LookupIdle ==
    /\ options = NoOptions
    /\ transcript = 0
    /\ stages = <<>>

LibIdle ==
    /\ built = FALSE
    /\ transcriptList = NoList
    /\ heap = <<>>
    /\ created = <<>>
    /\ call = NoCall

\* the catalog, the resolvers and the handles are the same code in both
\* families and do not look into the video id
Init ==
    /\ variant = "axios"
    /\ videoId = "v1"
    /\ captionsJson \in Manifests
    /\ LibIdle
    /\ NetIdle
    /\ ExtIdle
    /\ LookupIdle
    /\ BatchIdle

BuildTranscriptList ==
    /\ ~built
    /\ call.op = "none"
    /\ IF buildTranscriptListThrows(captionsJson)
       THEN /\ call' = [NoCall EXCEPT !.op = "buildTranscriptList",
                                      !.result = Raise(Throw("TypeError", ""))]
            /\ UNCHANGED <<built, heap, created, transcriptList>>
       ELSE /\ built' = TRUE
            /\ heap' = heap \o CreatedTranscripts(videoId, captionsJson)
            /\ created' = created \o CreatedTranscripts(videoId, captionsJson)
            /\ transcriptList' = buildTranscriptList(videoId, captionsJson, Len(heap))
            /\ call' = [NoCall EXCEPT !.op = "buildTranscriptList", !.result = Return(0)]
    /\ UNCHANGED <<extVars, batchVars, lookupVars, variant, videoId, captionsJson, netVars>>

FindTranscript ==
    /\ built
    /\ \E languageCodes \in SeqsUpTo(RequestCodes, MaxLanguages) :
          call' = [NoCall EXCEPT !.op = "findTranscript",
                                 !.languageCodes = languageCodes,
                                 !.result = findTranscript(transcriptList, languageCodes)]
    /\ UNCHANGED <<extVars, batchVars, lookupVars, variant, videoId, captionsJson, built, transcriptList, heap, created, netVars>>

FindGeneratedTranscript ==
    /\ built
    /\ \E languageCodes \in SeqsUpTo(RequestCodes, MaxLanguages) :
          call' = [NoCall EXCEPT !.op = "findGeneratedTranscript",
                                 !.languageCodes = languageCodes,
                                 !.result = findGeneratedTranscript(transcriptList, languageCodes)]
    /\ UNCHANGED <<extVars, batchVars, lookupVars, variant, videoId, captionsJson, built, transcriptList, heap, created, netVars>>

FindManuallyCreatedTranscript ==
    /\ built
    /\ \E languageCodes \in SeqsUpTo(RequestCodes, MaxLanguages) :
          call' = [NoCall EXCEPT !.op = "findManuallyCreatedTranscript",
                                 !.languageCodes = languageCodes,
                                 !.result = findManuallyCreatedTranscript(transcriptList, languageCodes)]
    /\ UNCHANGED <<extVars, batchVars, lookupVars, variant, videoId, captionsJson, built, transcriptList, heap, created, netVars>>

\* variant in which translate rewrites the handle it is called on
TranslateHeap_inPlace(this, outcome) ==
    IF outcome.ok
    THEN Append([heap EXCEPT ![this] = [@ EXCEPT !.url = outcome.handle.url,
                                                 !.isGenerated = TRUE]],
                outcome.handle)
    ELSE heap

\* handle.translate(languageCode) on any handle the caller holds: the
\* derived handle is a new object, the handle called on is left alone
TranslateHeap(this, outcome) ==
    IF outcome.ok THEN Append(heap, outcome.handle) ELSE heap

Translate ==
    /\ built
    /\ \E this \in DOMAIN heap, languageCode \in RequestCodes :
          LET outcome == translate(heap[this], languageCode)
          IN /\ outcome.ok => Len(heap) < MaxHeap
             /\ heap' = TranslateHeap(this, outcome)
             /\ created' = IF outcome.ok THEN Append(created, outcome.handle) ELSE created
             /\ call' = [NoCall EXCEPT !.op = "translate",
                                       !.this = this,
                                       !.languageCode = languageCode,
                                       !.result = IF outcome.ok THEN Return(Len(heap'))
                                                  ELSE Raise(outcome.error)]
    /\ UNCHANGED <<extVars, batchVars, lookupVars, variant, videoId, captionsJson, built, transcriptList, netVars>>

Next ==
    \/ BuildTranscriptList
    \/ FindTranscript
    \/ FindGeneratedTranscript
    \/ FindManuallyCreatedTranscript
    \/ Translate

Spec == Init /\ [][Next]_vars

(***************************************************************************)
(* fetchVideoHtml of the transcripts module, one action per continuation   *)
(* between two awaits.                                                     *)
(***************************************************************************)
Receive(page) == [page EXCEPT !.serial = Len(requests)]

\* fetchVideoHtml(videoId) is called: fetchHtml issues its first GET
FetchVideoHtmlCall ==
    /\ pc = "idle"
    /\ requests' = Append(requests, Sent(GetWatch(variant = "axios"), variant, jar))
    /\ pc' = "html1"
    /\ UNCHANGED <<extVars, batchVars, lookupVars, variant, videoId, libVars, html, refetched, jar, consentCalls, result>>

\* variant that negotiates consent for a page with the yt-uix-button marker too
AfterFirstFetch_negotiatesOnUix(page) ==
    /\ html' = page
    /\ refetched' = refetched
    /\ IF page.consent \/ page.uix
       THEN /\ consentCalls' = consentCalls + 1
            /\ IF ~page.token
               THEN /\ result' = Thrown(Throw("FailedToCreateConsentCookie", videoId))
                    /\ pc' = "done"
                    /\ UNCHANGED <<requests, jar>>
               ELSE IF variant = "axios"
               THEN /\ jar' = jar \cup {Cookie("CONSENT", videoId)}
                    /\ requests' = Append(requests, Sent(GetWatch(TRUE), variant, jar'))
                    /\ pc' = "html2"
                    /\ result' = result
               ELSE /\ requests' = Append(requests, Sent(PostConsent, variant, jar))
                    /\ pc' = "consentPost"
                    /\ UNCHANGED <<jar, result>>
       ELSE /\ result' = Returned(page)
            /\ pc' = "done"
            /\ UNCHANGED <<requests, jar, consentCalls>>

\* variant of createConsentCookie that goes on without a token
AfterFirstFetch_ignoresMissingToken(page) ==
    /\ html' = page
    /\ refetched' = refetched
    /\ IF page.consent
       THEN /\ consentCalls' = consentCalls + 1
            /\ IF variant = "axios"
               THEN /\ jar' = jar \cup {Cookie("CONSENT", videoId)}
                    /\ requests' = Append(requests, Sent(GetWatch(TRUE), variant, jar'))
                    /\ pc' = "html2"
                    /\ result' = result
               ELSE /\ requests' = Append(requests, Sent(PostConsent, variant, jar))
                    /\ pc' = "consentPost"
                    /\ UNCHANGED <<jar, result>>
       ELSE /\ result' = Returned(page)
            /\ pc' = "done"
            /\ UNCHANGED <<requests, jar, consentCalls>>

\* fetchVideoHtml resumes with the page of the first fetchHtml
AfterFirstFetch(page) ==
    /\ html' = page
    /\ refetched' = refetched
    /\ IF page.consent
       THEN /\ consentCalls' = consentCalls + 1
            /\ IF ~page.token
               THEN /\ result' = Thrown(Throw("FailedToCreateConsentCookie", videoId))
                    /\ pc' = "done"
                    /\ UNCHANGED <<requests, jar>>
               ELSE IF variant = "axios"
               THEN /\ jar' = jar \cup {Cookie("CONSENT", videoId)}
                    /\ requests' = Append(requests, Sent(GetWatch(TRUE), variant, jar'))
                    /\ pc' = "html2"
                    /\ result' = result
               ELSE /\ requests' = Append(requests, Sent(PostConsent, variant, jar))
                    /\ pc' = "consentPost"
                    /\ UNCHANGED <<jar, result>>
       ELSE /\ result' = Returned(page)
            /\ pc' = "done"
            /\ UNCHANGED <<requests, jar, consentCalls>>

\* variant that negotiates again while the consent form keeps coming
AfterRefetch_retry(page) ==
    /\ AfterFirstFetch(page)

\* fetchVideoHtml resumes with the page of the second fetchHtml
AfterRefetch(page) ==
    /\ html' = page
    /\ refetched' = page
    /\ pc' = "done"
    /\ result' = IF page.consent
                 THEN Thrown(Throw("FailedToCreateConsentCookie", videoId))
                 ELSE Returned(page)
    /\ UNCHANGED <<requests, jar, consentCalls>>

FetchHtmlReturns(page) ==
    IF pc \in {"html1", "html1retry"} THEN AfterFirstFetch(page) ELSE AfterRefetch(page)

TransportFailure ==
    /\ pc' = "done"
    /\ result' = Thrown(Throw("TransportError", ""))
    /\ UNCHANGED <<html, refetched, requests, jar, consentCalls>>

\* the first GET of a fetchHtml is answered
HtmlResponse ==
    /\ pc \in {"html1", "html2"}
    /\ \/ TransportFailure
       \/ \E body \in FetchPages :
             LET page == Receive(body)
             IN IF variant = "fetch" /\ (page.consent \/ page.uix)
                THEN /\ requests' = Append(requests, Sent(GetWatch(TRUE), variant, jar))
                     /\ pc' = IF pc = "html1" THEN "html1retry" ELSE "html2retry"
                     /\ UNCHANGED <<html, refetched, jar, consentCalls, result>>
                ELSE FetchHtmlReturns(page)
    /\ UNCHANGED <<extVars, batchVars, lookupVars, variant, videoId, libVars>>

\* the second GET of a fetchHtml (the one with Accept-Language) is answered
HtmlRetryResponse ==
    /\ pc \in {"html1retry", "html2retry"}
    /\ \/ TransportFailure
       \/ \E body \in FetchPages : FetchHtmlReturns(Receive(body))
    /\ UNCHANGED <<extVars, batchVars, lookupVars, variant, videoId, libVars>>

\* the POST of createConsentCookie is answered; the second fetchHtml starts
ConsentPostResponse ==
    /\ pc = "consentPost"
    /\ \/ TransportFailure
       \/ /\ \E setCookie \in BOOLEAN : jar' = IF setCookie THEN jar \cup {Cookie("CONSENT", videoId)} ELSE jar
          /\ requests' = Append(requests, Sent(GetWatch(FALSE), variant, jar'))
          /\ pc' = "html2"
          /\ UNCHANGED <<html, refetched, consentCalls, result>>
    /\ UNCHANGED <<extVars, batchVars, lookupVars, variant, videoId, libVars>>

\* the store the next lookup works with: fetchWithCookies is created once
\* when the module is loaded; the axios client and its jar are created by
\* fetchTranscript for every video
NextSession(family, store) == IF family = "fetch" THEN store ELSE {}

\* the caller's loop over its video ids goes on to the next video once the
\* call for the previous one has settled
FetchVideoHtmlNext ==
    /\ pc = "done"
    /\ \E vid \in VideoIds \ {videoId} : videoId' = vid
    /\ jar' = NextSession(variant, jar)
    /\ pc' = "idle"
    /\ html' = NoPage
    /\ refetched' = NoPage
    /\ requests' = <<>>
    /\ consentCalls' = 0
    /\ result' = Pending
    /\ UNCHANGED <<extVars, batchVars, lookupVars, variant, libVars>>

InitFetch ==
    /\ variant \in Variants
    /\ videoId \in VideoIds
    /\ captionsJson = EmptyManifest
    /\ LibIdle
    /\ NetIdle
    /\ ExtIdle
    /\ LookupIdle
    /\ BatchIdle

NextFetch ==
    \/ FetchVideoHtmlCall
    \/ HtmlResponse
    \/ HtmlRetryResponse
    \/ ConsentPostResponse
    \/ FetchVideoHtmlNext

SpecFetch == InitFetch /\ [][NextFetch]_vars

(***************************************************************************)
(* extractCaptionsJson.                                                    *)
(***************************************************************************)
LooksLikeUrl(vid) == vid \in HttpIds \/ vid \in HttpsIds

\* variant that classifies the id and the page before it looks for the captions marker
extractCaptionsJson_classifiesFirst(page, vid) ==
    IF LooksLikeUrl(vid) THEN [ok |-> FALSE, error |-> Throw("InvalidVideoId", vid), manifest |-> EmptyManifest]
    ELSE IF page.recaptcha THEN [ok |-> FALSE, error |-> Throw("TooManyRequests", vid), manifest |-> EmptyManifest]
    ELSE IF ~page.playability THEN [ok |-> FALSE, error |-> Throw("VideoUnavailable", vid), manifest |-> EmptyManifest]
    ELSE IF ~page.captions THEN [ok |-> FALSE, error |-> Throw("TranscriptsDisabled", vid), manifest |-> EmptyManifest]
    ELSE IF page.json.kind = "syntaxError" THEN [ok |-> FALSE, error |-> Throw("SyntaxError", ""), manifest |-> EmptyManifest]
    ELSE IF page.json.kind = "null" THEN [ok |-> FALSE, error |-> Throw("TypeError", ""), manifest |-> EmptyManifest]
    ELSE IF page.json.kind = "noRenderer" THEN [ok |-> FALSE, error |-> Throw("TranscriptsDisabled", vid), manifest |-> EmptyManifest]
    ELSE IF page.json.kind = "noCaptionTracks" THEN [ok |-> FALSE, error |-> Throw("NoTranscriptAvailable", vid), manifest |-> EmptyManifest]
    ELSE [ok |-> TRUE, error |-> NoError, manifest |-> page.json.manifest]

\* variant that tests the playability marker before the reCAPTCHA marker
extractCaptionsJson_playabilityFirst(page, vid) ==
    IF ~page.captions
    THEN IF LooksLikeUrl(vid) THEN [ok |-> FALSE, error |-> Throw("InvalidVideoId", vid), manifest |-> EmptyManifest]
         ELSE IF ~page.playability THEN [ok |-> FALSE, error |-> Throw("VideoUnavailable", vid), manifest |-> EmptyManifest]
         ELSE IF page.recaptcha THEN [ok |-> FALSE, error |-> Throw("TooManyRequests", vid), manifest |-> EmptyManifest]
         ELSE [ok |-> FALSE, error |-> Throw("TranscriptsDisabled", vid), manifest |-> EmptyManifest]
    ELSE IF page.json.kind = "syntaxError" THEN [ok |-> FALSE, error |-> Throw("SyntaxError", ""), manifest |-> EmptyManifest]
    ELSE IF page.json.kind = "null" THEN [ok |-> FALSE, error |-> Throw("TypeError", ""), manifest |-> EmptyManifest]
    ELSE IF page.json.kind = "noRenderer" THEN [ok |-> FALSE, error |-> Throw("TranscriptsDisabled", vid), manifest |-> EmptyManifest]
    ELSE IF page.json.kind = "noCaptionTracks" THEN [ok |-> FALSE, error |-> Throw("NoTranscriptAvailable", vid), manifest |-> EmptyManifest]
    ELSE [ok |-> TRUE, error |-> NoError, manifest |-> page.json.manifest]

\* variant with the two tests on the decoded value in the other order of kinds
extractCaptionsJson_kindsSwapped(page, vid) ==
    IF ~page.captions
    THEN IF LooksLikeUrl(vid) THEN [ok |-> FALSE, error |-> Throw("InvalidVideoId", vid), manifest |-> EmptyManifest]
         ELSE IF page.recaptcha THEN [ok |-> FALSE, error |-> Throw("TooManyRequests", vid), manifest |-> EmptyManifest]
         ELSE IF ~page.playability THEN [ok |-> FALSE, error |-> Throw("VideoUnavailable", vid), manifest |-> EmptyManifest]
         ELSE [ok |-> FALSE, error |-> Throw("TranscriptsDisabled", vid), manifest |-> EmptyManifest]
    ELSE IF page.json.kind = "syntaxError" THEN [ok |-> FALSE, error |-> Throw("SyntaxError", ""), manifest |-> EmptyManifest]
    ELSE IF page.json.kind = "null" THEN [ok |-> FALSE, error |-> Throw("TypeError", ""), manifest |-> EmptyManifest]
    ELSE IF page.json.kind = "noRenderer" THEN [ok |-> FALSE, error |-> Throw("NoTranscriptAvailable", vid), manifest |-> EmptyManifest]
    ELSE IF page.json.kind = "noCaptionTracks" THEN [ok |-> FALSE, error |-> Throw("TranscriptsDisabled", vid), manifest |-> EmptyManifest]
    ELSE [ok |-> TRUE, error |-> NoError, manifest |-> page.json.manifest]

\* page.json.kind says what the text after the captions marker decodes to:
\*   "syntaxError"     : JSON.parse throws
\*   "null"            : null, whose property read throws a TypeError
\*   "noRenderer"      : a value without playerCaptionsTracklistRenderer
\*   "noCaptionTracks" : a manifest without captionTracks
\*   "manifest"        : a manifest with captionTracks (an empty list included)
extractCaptionsJson(page, vid) ==
    IF ~page.captions
    THEN IF LooksLikeUrl(vid) THEN [ok |-> FALSE, error |-> Throw("InvalidVideoId", vid), manifest |-> EmptyManifest]
         ELSE IF page.recaptcha THEN [ok |-> FALSE, error |-> Throw("TooManyRequests", vid), manifest |-> EmptyManifest]
         ELSE IF ~page.playability THEN [ok |-> FALSE, error |-> Throw("VideoUnavailable", vid), manifest |-> EmptyManifest]
         ELSE [ok |-> FALSE, error |-> Throw("TranscriptsDisabled", vid), manifest |-> EmptyManifest]
    ELSE IF page.json.kind = "syntaxError" THEN [ok |-> FALSE, error |-> Throw("SyntaxError", ""), manifest |-> EmptyManifest]
    ELSE IF page.json.kind = "null" THEN [ok |-> FALSE, error |-> Throw("TypeError", ""), manifest |-> EmptyManifest]
    ELSE IF page.json.kind = "noRenderer" THEN [ok |-> FALSE, error |-> Throw("TranscriptsDisabled", vid), manifest |-> EmptyManifest]
    ELSE IF page.json.kind = "noCaptionTracks" THEN [ok |-> FALSE, error |-> Throw("NoTranscriptAvailable", vid), manifest |-> EmptyManifest]
    ELSE [ok |-> TRUE, error |-> NoError, manifest |-> page.json.manifest]

(***************************************************************************)
(* The per-video lookup of the command line (fetchTranscript), one action  *)
(* per stage.  Its page fetch is the fetchVideoHtml declared inside        *)
(* ytScript, a single GET, which shadows the import of the same name.      *)
(***************************************************************************)
Jsons ==
    {[kind |-> k, manifest |-> EmptyManifest] : k \in {"syntaxError", "null", "noRenderer", "noCaptionTracks"}}
    \cup {[kind |-> "manifest", manifest |-> m] : m \in LookupManifests}

\* pages the watch URL may answer a lookup with
LookupPages ==
    {[NoPage EXCEPT !.recaptcha = r, !.playability = q] : r \in BOOLEAN, q \in BOOLEAN}
    \cup {[NoPage EXCEPT !.captions = TRUE, !.recaptcha = r, !.playability = q, !.json = j] :
            r \in BOOLEAN, q \in BOOLEAN, j \in Jsons}

\* subtitle documents: <text> elements in document order
\* the content of a <text> element is a sequence of pieces: characters, a
\* %XX escape, a tag written with entities (&lt;b&gt;), or a child element
Chars(c) == [kind |-> "chars", tag |-> c]
Percent(c) == [kind |-> "percent", tag |-> c]
EntityTag(t) == [kind |-> "entity", tag |-> t]
ElementTag(t) == [kind |-> "element", tag |-> t]
\* a tag as it reads in a line's text
TagText(t) == [kind |-> "tag", tag |-> t]

TextElements == {[start |-> 2, hasDur |-> TRUE, dur |-> 3, text |-> <<Chars("a")>>],
                 [start |-> 1, hasDur |-> FALSE, dur |-> 0, text |-> <<EntityTag("b"), Percent("b")>>]}
CueDocs ==
    {[wellFormed |-> TRUE, texts |-> t] : t \in SeqsUpTo(TextElements, MaxCues)}
    \cup {[wellFormed |-> FALSE, texts |-> <<>>]}

GetCue(url, acceptLanguage) == [method |-> "GET", target |-> "cue", acceptLanguage |-> acceptLanguage,
                                cookies |-> {}, url |-> url]

\* the global unescape, applied to the body before it is parsed: %XX
\* escapes become characters, entities stay
unescape(doc) ==
    [doc EXCEPT !.texts =
        [i \in DOMAIN doc.texts |->
            [doc.texts[i] EXCEPT !.text =
                [k \in DOMAIN doc.texts[i].text |->
                    IF doc.texts[i].text[k].kind = "percent"
                    THEN Chars(doc.texts[i].text[k].tag)
                    ELSE doc.texts[i].text[k]]]]]

\* el.textContent of a parsed <text> element: the XML parser has decoded the
\* entities, and child elements contribute their (empty) content
RECURSIVE textContent(_)
textContent(text) ==
    IF text = <<>> THEN <<>>
    ELSE (CASE Head(text).kind = "element" -> <<>>
            [] Head(text).kind = "entity" -> <<TagText(Head(text).tag)>>
            [] OTHER -> <<Head(text)>>)
         \o textContent(Tail(text))

\* variant that returns the lines in order of start time
parse_sortedByStart(doc) ==
    LET n == Len(doc.texts)
        rank(i) == Cardinality({j \in 1..n : \/ doc.texts[j].start < doc.texts[i].start
                                             \/ doc.texts[j].start = doc.texts[i].start /\ j < i}) + 1
        at(k) == CHOOSE i \in 1..n : rank(i) = k
    IN [k \in 1..n |->
           [text |-> textContent(doc.texts[at(k)].text),
            start |-> doc.texts[at(k)].start,
            duration |-> IF doc.texts[at(k)].hasDur THEN doc.texts[at(k)].dur ELSE 0]]

\* createTranscriptParser(...).parse
parse(doc) ==
    [i \in DOMAIN doc.texts |->
        [text |-> textContent(doc.texts[i].text),
         start |-> doc.texts[i].start,
         duration |-> IF doc.texts[i].hasDur THEN doc.texts[i].dur ELSE 0]]

Lines(lines) == [kind |-> "lines", lines |-> lines]
Listing == [kind |-> "listing", lines |-> <<>>]
NoValue == [kind |-> "none", lines |-> <<>>]

Failed(err) == [status |-> "thrown", value |-> NoValue, error |-> err]
Stage(name, ok) == [stage |-> name, ok |-> ok]

\* the text fetchAndFormatTranscripts returns when both exclude flags are set
UsageText == [kind |-> "usage", lines |-> <<>>]

LookupOptions ==
    {[languages |-> l, listTranscripts |-> lt, excludeGenerated |-> eg,
      excludeManuallyCreated |-> em, translate |-> t, cookies |-> c, format |-> "pretty"] :
        l \in SeqsUpTo(RequestCodes, MaxLookupLanguages), lt \in BOOLEAN,
        eg \in BOOLEAN, em \in BOOLEAN, t \in {"", "de"}, c \in {"", "cookies.txt"}}

\* the cookies of the file, set in the jar of the video's client
FileCookies(vid) == {Cookie("file", vid)}

\* fetchAndFormatTranscripts is called for one video id: it tests the two
\* exclude flags, reads the cookie file if one is given, and calls
\* fetchTranscript, whose local fetchVideoHtml issues its GET.  The fetch
\* family reads fetchWithCookies.defaults.headers while defaults is undefined.
LookupCall ==
    /\ pc = "idle"
    /\ IF options.excludeGenerated /\ options.excludeManuallyCreated
       THEN /\ result' = Returned(UsageText)
            /\ pc' = "done"
            /\ UNCHANGED <<requests, jar, cookieFileRead>>
       ELSE IF options.cookies = ""
       THEN /\ requests' = Append(requests, Sent(GetWatch(TRUE), variant, jar))
            /\ pc' = "page"
            /\ UNCHANGED <<jar, result, cookieFileRead>>
       ELSE /\ cookieFileRead' = TRUE
            /\ \/ /\ result' = Failed(Throw("Error", ""))
                  /\ pc' = "done"
                  /\ UNCHANGED <<requests, jar>>
               \/ IF variant = "fetch"
                  THEN /\ result' = Failed(Throw("TypeError", ""))
                       /\ pc' = "done"
                       /\ UNCHANGED <<requests, jar>>
                  ELSE /\ jar' = FileCookies(videoId)
                       /\ requests' = Append(requests, Sent(GetWatch(TRUE), variant, jar'))
                       /\ pc' = "page"
                       /\ result' = result
    /\ UNCHANGED <<cueVars, parseVars, video_ids, position, transcripts, exceptions, output, attempts,
                   batchVars, variant, videoId, libVars, lookupVars, html, refetched, consentCalls>>

\* a rejected request: the rejection leaves fetchTranscript as it came
StageFails(name, err) ==
    /\ stages' = Append(stages, Stage(name, FALSE))
    /\ result' = Failed(err)
    /\ pc' = "done"

PageResponse ==
    /\ pc = "page"
    /\ \/ /\ StageFails("pageFetch", Throw("TransportError", ""))
          /\ html' = html
       \/ \E body \in LookupPages :
             /\ html' = Receive(body)
             /\ stages' = Append(stages, Stage("pageFetch", TRUE))
             /\ pc' = "extract"
             /\ result' = result
    /\ UNCHANGED <<extVars, batchVars, variant, videoId, libVars, options, transcript, refetched, requests, jar, consentCalls>>

ExtractStage ==
    /\ pc = "extract"
    /\ LET r == extractCaptionsJson(html, videoId)
       IN IF r.ok
          THEN /\ captionsJson' = r.manifest
               /\ stages' = Append(stages, Stage("extract", TRUE))
               /\ pc' = "build"
               /\ result' = result
          ELSE /\ StageFails("extract", r.error)
               /\ captionsJson' = captionsJson
    /\ UNCHANGED <<extVars, batchVars, variant, videoId, built, transcriptList, heap, created, call, options, transcript,
                   html, refetched, requests, jar, consentCalls>>

BuildStage ==
    /\ pc = "build"
    /\ IF buildTranscriptListThrows(captionsJson)
       THEN /\ StageFails("build", Throw("TypeError", ""))
            /\ UNCHANGED <<built, transcriptList, heap, created>>
       ELSE /\ built' = TRUE
            /\ heap' = heap \o CreatedTranscripts(videoId, captionsJson)
            /\ created' = created \o CreatedTranscripts(videoId, captionsJson)
            /\ transcriptList' = buildTranscriptList(videoId, captionsJson, Len(heap))
            /\ stages' = Append(stages, Stage("build", TRUE))
            /\ IF options.listTranscripts
               THEN pc' = "done" /\ result' = Returned(Listing)
               ELSE pc' = "find" /\ result' = result
    /\ UNCHANGED <<extVars, batchVars, variant, videoId, captionsJson, call, options, transcript,
                   html, refetched, requests, jar, consentCalls>>

\* variant that resolves with findTranscript whatever the flags say
Resolve_ignoresFlags(tl, opts) ==
    findTranscript(tl, opts.languages)

Resolve(tl, opts) ==
    IF opts.excludeGenerated THEN findManuallyCreatedTranscript(tl, opts.languages)
    ELSE IF opts.excludeManuallyCreated THEN findGeneratedTranscript(tl, opts.languages)
    ELSE findTranscript(tl, opts.languages)

FindStage ==
    /\ pc = "find"
    /\ LET r == Resolve(transcriptList, options)
       IN IF r.ok
          THEN /\ transcript' = r.value
               /\ stages' = Append(stages, Stage("find", TRUE))
               /\ pc' = IF options.translate # "" THEN "translate" ELSE "fetch"
               /\ result' = result
          ELSE /\ StageFails("find", r.error)
               /\ transcript' = transcript
    /\ UNCHANGED <<extVars, batchVars, variant, videoId, libVars, options, html, refetched, requests, jar, consentCalls>>

TranslateStage ==
    /\ pc = "translate"
    /\ LET outcome == translate(heap[transcript], options.translate)
       IN IF outcome.ok
          THEN /\ heap' = TranslateHeap(transcript, outcome)
               /\ created' = Append(created, outcome.handle)
               /\ transcript' = Len(heap')
               /\ stages' = Append(stages, Stage("translate", TRUE))
               /\ pc' = "fetch"
               /\ result' = result
          ELSE /\ StageFails("translate", outcome.error)
               /\ UNCHANGED <<heap, created, transcript>>
    /\ UNCHANGED <<extVars, batchVars, variant, videoId, captionsJson, built, transcriptList, call, options,
                   html, refetched, requests, jar, consentCalls>>

\* transcript.fetch() issues its GET of the handle's URL
FetchStage ==
    /\ pc = "fetch"
    /\ requests' = Append(requests, Sent(GetCue(heap[transcript].url, variant = "axios"), variant, jar))
    /\ pc' = "cue"
    /\ responses' = <<>>
    /\ UNCHANGED <<parseVars, cliVars, batchVars, variant, videoId, libVars, lookupVars, html, refetched, jar, consentCalls, result>>

\* variant that answers a failed cue request with no lines instead of failing
CueFailure_swallowed ==
    /\ stages' = Append(stages, Stage("cueFetch", FALSE))
    /\ result' = Returned(Lines(<<>>))
    /\ pc' = "done"

\* the cue request is rejected
CueFailure ==
    /\ StageFails("cueFetch", Throw("TransportError", ""))

\* the body of the last response is parsed
ParseBody(doc) ==
    IF doc.wellFormed
    THEN /\ stages' = Append(stages, Stage("cueFetch", TRUE))
         /\ result' = Returned(Lines(parse(unescape(doc))))
         /\ pc' = "done"
    ELSE StageFails("cueFetch", Throw("TypeError", ""))

\* the response to the handle's GET arrives
CueResponse ==
    /\ pc = "cue"
    /\ \/ /\ CueFailure
          /\ UNCHANGED <<requests, responses>>
       \/ \E ok \in BOOLEAN, doc \in CueDocs :
             /\ responses' = Append(responses, [ok |-> ok, doc |-> doc])
             /\ IF variant = "fetch" /\ ~ok
                THEN /\ requests' = Append(requests, Sent(GetCue(heap[transcript].url, TRUE), variant, jar))
                     /\ pc' = "cueRetry"
                     /\ UNCHANGED <<stages, result>>
                ELSE /\ variant = "axios" => ok
                     /\ ParseBody(doc)
                     /\ requests' = requests
    /\ UNCHANGED <<parseVars, cliVars, batchVars, variant, videoId, libVars, options, transcript, html, refetched, jar, consentCalls>>

\* variant that keeps asking while the response is not successful
CueRetryResponse_again ==
    /\ pc = "cueRetry"
    /\ \/ /\ CueFailure
          /\ UNCHANGED <<requests, responses>>
       \/ \E ok \in BOOLEAN, doc \in CueDocs :
             /\ responses' = Append(responses, [ok |-> ok, doc |-> doc])
             /\ IF ~ok /\ Len(responses) < 2
                THEN /\ requests' = Append(requests, Sent(GetCue(heap[transcript].url, TRUE), variant, jar))
                     /\ UNCHANGED <<pc, stages, result>>
                ELSE /\ ParseBody(doc)
                     /\ requests' = requests
    /\ UNCHANGED <<parseVars, cliVars, batchVars, variant, videoId, libVars, options, transcript, html, refetched, jar, consentCalls>>

\* the response to the second GET arrives
CueRetryResponse ==
    /\ pc = "cueRetry"
    /\ \/ /\ CueFailure
          /\ UNCHANGED <<requests, responses>>
       \/ \E ok \in BOOLEAN, doc \in CueDocs :
             /\ responses' = Append(responses, [ok |-> ok, doc |-> doc])
             /\ ParseBody(doc)
             /\ requests' = requests
    /\ UNCHANGED <<parseVars, cliVars, batchVars, variant, videoId, libVars, options, transcript, html, refetched, jar, consentCalls>>

InitLookup ==
    /\ variant \in Variants
    /\ videoId \in VideoIds
    /\ captionsJson = EmptyManifest
    /\ LibIdle
    /\ NetIdle
    /\ ExtIdle
    /\ options \in LookupOptions
    /\ transcript = 0
    /\ stages = <<>>
    /\ BatchIdle

NextLookup ==
    \/ LookupCall
    \/ PageResponse
    \/ ExtractStage
    \/ BuildStage
    \/ FindStage
    \/ TranslateStage
    \/ FetchStage
    \/ CueResponse
    \/ CueRetryResponse

SpecLookup == InitLookup /\ [][NextLookup]_vars

(***************************************************************************)
(* getTranscripts of the API class: the loop over videoIds, one action per *)
(* continuation between two awaits.                                        *)
(***************************************************************************)
\* the transcript the placeholder TranscriptListFetcher resolves with
PlaceholderLines == <<[text |-> "Example transcript text", start |-> 0, end |-> 10]>>

Resolve_(lines) == [ok |-> TRUE, lines |-> lines, error |-> NoError]
Reject_(err) == [ok |-> FALSE, lines |-> <<>>, error |-> err]

\* how getTranscript(videoId, ...) may settle
getTranscript(vid, family, cookiesPath) ==
    IF vid \in NonStringIds THEN {Reject_(Throw("Error", ""))}
    ELSE IF family = "fetch" THEN {Reject_(Throw("TypeError", ""))}
    ELSE IF cookiesPath # ""
    THEN {Reject_(Throw("CookiePathInvalid", "")), Reject_(Throw("CookiesInvalid", "")),
          Resolve_(PlaceholderLines)}
    ELSE {Resolve_(PlaceholderLines)}

Running(vid) == [videoId |-> vid, state |-> "running", error |-> NoError]

\* variant of the catch block that never rethrows
Rethrows_never(flag) == FALSE

\* catch: if (!continueAfterError) throw error
Rethrows(flag) == ~flag

\* variant that puts the id in front of the list
PushUnretrievable_front(list, vid) == <<vid>> \o list

\* unretrievableVideos.push(videoId)
PushUnretrievable(list, vid) == Append(list, vid)

\* variant that starts a new data object at every assignment
PutData_fresh(d, vid, lines) ==
    [v \in {vid} |-> lines]

\* data[videoId] = lines
PutData(d, vid, lines) ==
    [v \in DOMAIN d \cup {vid} |-> IF v = vid THEN lines ELSE d[v]]

\* the loop reaches position i: it calls getTranscript or, past the end, returns
LoopAt(i, d, u, log) ==
    IF i <= Len(videoIds)
    THEN /\ idx' = i
         /\ lookups' = Append(log, Running(videoIds[i]))
         /\ batchResult' = batchResult
    ELSE /\ idx' = i
         /\ lookups' = log
         /\ batchResult' = [status |-> "returned", data |-> d, unretrievableVideos |-> u,
                            error |-> NoError]

GetTranscriptsCall ==
    /\ batchResult.status = "pending"
    /\ idx = 0
    /\ IF ~isArray
       THEN /\ batchResult' = [BatchPending EXCEPT !.status = "thrown", !.error = Throw("Error", "")]
            /\ UNCHANGED <<idx, lookups>>
       ELSE LoopAt(1, data, unretrievableVideos, lookups)
    /\ UNCHANGED <<extVars, variant, videoId, libVars, netVars, lookupVars, videoIds, isArray,
                   continueAfterError, cookies, data, unretrievableVideos>>

\* the awaited getTranscript resolves: data[videoId] = ...
GetTranscriptResolves ==
    /\ batchResult.status = "pending"
    /\ idx \in DOMAIN lookups
    /\ lookups[idx].state = "running"
    /\ \E r \in getTranscript(videoIds[idx], variant, cookies) :
          /\ r.ok
          /\ data' = PutData(data, videoIds[idx], r.lines)
          /\ unretrievableVideos' = unretrievableVideos
          /\ \E settled \in {[lookups EXCEPT ![idx].state = "ok"]} :
                LoopAt(idx + 1, data', unretrievableVideos', settled)
    /\ UNCHANGED <<extVars, variant, videoId, libVars, netVars, lookupVars, videoIds, isArray,
                   continueAfterError, cookies>>

\* the awaited getTranscript rejects: the catch block runs
GetTranscriptRejects ==
    /\ batchResult.status = "pending"
    /\ idx \in DOMAIN lookups
    /\ lookups[idx].state = "running"
    /\ \E r \in getTranscript(videoIds[idx], variant, cookies) :
          /\ ~r.ok
          /\ data' = data
          /\ \E settled \in {[lookups EXCEPT ![idx].state = "failed", ![idx].error = r.error]} :
                IF Rethrows(continueAfterError)
                THEN /\ batchResult' = [BatchPending EXCEPT !.status = "thrown", !.error = r.error]
                     /\ lookups' = settled
                     /\ UNCHANGED <<idx, unretrievableVideos>>
                ELSE /\ unretrievableVideos' = PushUnretrievable(unretrievableVideos, videoIds[idx])
                     /\ LoopAt(idx + 1, data', unretrievableVideos', settled)
    /\ UNCHANGED <<extVars, variant, videoId, libVars, netVars, lookupVars, videoIds, isArray,
                   continueAfterError, cookies>>

InitBatch ==
    /\ variant \in Variants
    /\ videoId = "v1"
    /\ captionsJson = EmptyManifest
    /\ LibIdle
    /\ NetIdle
    /\ ExtIdle
    /\ LookupIdle
    /\ isArray \in BOOLEAN
    /\ videoIds \in (IF isArray THEN SeqsUpTo(BatchIds, MaxVideos) ELSE {<<>>})
    /\ continueAfterError \in BOOLEAN
    /\ cookies \in {"", "cookies.txt"}
    /\ idx = 0
    /\ data = EmptyData
    /\ unretrievableVideos = <<>>
    /\ lookups = <<>>
    /\ batchResult = BatchPending

NextBatch ==
    \/ GetTranscriptsCall
    \/ GetTranscriptResolves
    \/ GetTranscriptRejects

SpecBatch == InitBatch /\ [][NextBatch]_vars

(***************************************************************************)
(* Properties of resolution and translation, checked under Spec.           *)
(***************************************************************************)
Present(code) ==
    \/ code \in DOMAIN transcriptList.manuallyCreatedTranscripts
    \/ code \in DOMAIN transcriptList.generatedTranscripts

FirstPresent(languageCodes) ==
    CHOOSE i \in DOMAIN languageCodes :
        /\ Present(languageCodes[i])
        /\ \A j \in DOMAIN languageCodes : Present(languageCodes[j]) => i <= j

HandleOf(code) ==
    IF code \in DOMAIN transcriptList.manuallyCreatedTranscripts
    THEN transcriptList.manuallyCreatedTranscripts[code]
    ELSE transcriptList.generatedTranscripts[code]

\* C1: findTranscript returns the handle of the first listed code that is a
\* key of the manually-created or of the generated map, the manually-created
\* handle when the code is a key of both; a later code never wins over an
\* earlier present one.
C1_FirstListedCodeWins ==
    (call.op = "findTranscript" /\ \E i \in DOMAIN call.languageCodes : Present(call.languageCodes[i]))
        => /\ call.result.ok
           /\ call.result.value = HandleOf(call.languageCodes[FirstPresent(call.languageCodes)])

C1_Witness ==
    /\ call.op = "findTranscript"
    /\ Len(call.languageCodes) = 2
    /\ call.languageCodes[1] \in DOMAIN transcriptList.generatedTranscripts
    /\ call.languageCodes[1] \notin DOMAIN transcriptList.manuallyCreatedTranscripts
    /\ call.languageCodes[2] \in DOMAIN transcriptList.manuallyCreatedTranscripts
    /\ call.result.ok
    /\ call.result.value = transcriptList.generatedTranscripts[call.languageCodes[1]]

\* C2: findTranscript fails with NoTranscriptFound exactly when no listed
\* code is a key of the manually-created or of the generated map.
C2_NoTranscriptFoundIff ==
    call.op = "findTranscript"
        => /\ (~call.result.ok) <=> (\A i \in DOMAIN call.languageCodes : ~Present(call.languageCodes[i]))
           /\ (~call.result.ok) => call.result.error.name = "NoTranscriptFound"

C2_Witness ==
    /\ call.op = "findTranscript"
    /\ Len(call.languageCodes) = 2
    /\ ~Present(call.languageCodes[1])
    /\ call.languageCodes[2] \in DOMAIN transcriptList.generatedTranscripts
    /\ call.languageCodes[2] \notin DOMAIN transcriptList.manuallyCreatedTranscripts
    /\ call.result.ok

InList(translationLanguages, code) ==
    \E i \in DOMAIN translationLanguages : translationLanguages[i].language_code = code

\* C5: translate fails with NotTranslatable whenever the handle's translation
\* list is empty, with TranslationLanguageNotAvailable when the list is
\* non-empty and lacks the target code, and succeeds only when the target
\* code is in the list.
C5_TranslateFailures ==
    call.op = "translate"
        => LET list == heap[call.this].translationLanguages
           IN /\ list = <<>> => (~call.result.ok /\ call.result.error.name = "NotTranslatable")
              /\ (list # <<>> /\ ~InList(list, call.languageCode))
                    => (~call.result.ok /\ call.result.error.name = "TranslationLanguageNotAvailable")
              /\ call.result.ok => InList(list, call.languageCode)

C5_Witness ==
    /\ call.op = "translate"
    /\ heap[call.this].translationLanguages = <<>>
    /\ InList(transcriptList.translationLanguages, call.languageCode)
    /\ ~call.result.ok
    /\ call.result.error.name = "NotTranslatable"

\* C6: a successful translate returns a handle with the source's video id,
\* the source URL with the translation-target parameter appended, the
\* display name the translation list gives for the code, generated flag
\* true, and an empty translation list, so translating it again fails with
\* NotTranslatable.
C6_DerivedHandle ==
    (call.op = "translate" /\ call.result.ok)
        => LET src == heap[call.this]
               derived == heap[call.result.value]
           IN /\ derived.videoId = src.videoId
              /\ derived.url = [base |-> src.url.base, tlang |-> src.url.tlang \o <<call.languageCode>>]
              /\ \E i \in DOMAIN src.translationLanguages :
                    /\ src.translationLanguages[i].language_code = call.languageCode
                    /\ src.translationLanguages[i].language = derived.language
              /\ derived.isGenerated = TRUE
              /\ derived.translationLanguages = <<>>
              /\ \A code \in RequestCodes :
                    /\ ~translate(derived, code).ok
                    /\ translate(derived, code).error.name = "NotTranslatable"

C6_Witness ==
    /\ call.op = "translate"
    /\ call.result.ok
    /\ ~heap[call.this].isGenerated
    /\ heap[call.result.value].isGenerated
    /\ heap[call.result.value].url.tlang = <<call.languageCode>>

\* C7: translate never changes an attribute of the handle it is called on:
\* after any sequence of translate calls every handle has the attributes it
\* was built with.
C7_HandlesImmutable ==
    /\ Len(heap) = Len(created)
    /\ \A i \in DOMAIN heap : heap[i] = created[i]

C7_Witness ==
    /\ call.op = "translate"
    /\ ~call.result.ok
    /\ Len(heap) > Len(captionsJson.captionTracks)
    /\ heap[call.this] = created[call.this]
    /\ isTranslatable(heap[call.this])

\* the map an entry point with a single map consults
OwnMap ==
    IF call.op = "findGeneratedTranscript" THEN transcriptList.generatedTranscripts
    ELSE transcriptList.manuallyCreatedTranscripts

OtherMap ==
    IF call.op = "findGeneratedTranscript" THEN transcriptList.manuallyCreatedTranscripts
    ELSE transcriptList.generatedTranscripts

FirstOwn(languageCodes) ==
    CHOOSE i \in DOMAIN languageCodes :
        /\ languageCodes[i] \in DOMAIN OwnMap
        /\ \A j \in DOMAIN languageCodes : languageCodes[j] \in DOMAIN OwnMap => i <= j

\* C11: findGeneratedTranscript consults only the generated map and
\* findManuallyCreatedTranscript only the manually-created map: each returns
\* the handle of the first listed code that is a key of its own map and
\* fails with NoTranscriptFound when no listed code is, even if a listed
\* code is a key of the other map.
C11_SingleMapEntryPoints ==
    call.op \in {"findGeneratedTranscript", "findManuallyCreatedTranscript"}
        => IF \E i \in DOMAIN call.languageCodes : call.languageCodes[i] \in DOMAIN OwnMap
           THEN /\ call.result.ok
                /\ call.result.value = OwnMap[call.languageCodes[FirstOwn(call.languageCodes)]]
           ELSE /\ ~call.result.ok
                /\ call.result.error.name = "NoTranscriptFound"

C11_Witness ==
    /\ call.op = "findGeneratedTranscript"
    /\ Len(call.languageCodes) = 2
    /\ \A i \in DOMAIN call.languageCodes :
          /\ call.languageCodes[i] \in DOMAIN OtherMap
          /\ call.languageCodes[i] \notin DOMAIN OwnMap
    /\ DOMAIN OwnMap # {}
    /\ ~call.result.ok
    /\ call.result.error.name = "NoTranscriptFound"

Resolvers == {"findTranscript", "findGeneratedTranscript", "findManuallyCreatedTranscript"}

\* C12: the NoTranscriptFound failure of any resolver entry point carries
\* the video id, the requested language codes as the caller passed them, and
\* a rendering of the catalog's available languages.
C12_NoTranscriptFoundCarriesCatalog ==
    (call.op \in Resolvers /\ ~call.result.ok)
        => /\ call.result.error.name = "NoTranscriptFound"
           /\ call.result.error.videoId = transcriptList.videoId
           /\ call.result.error.requestedLanguageCodes = call.languageCodes
           /\ call.result.error.transcriptData.defined

(***************************************************************************)
(* Properties of catalog building, checked under Spec.                     *)
(***************************************************************************)
Tracks == captionsJson.captionTracks

MapOf(track) ==
    IF track.kind = "asr" THEN transcriptList.generatedTranscripts
    ELSE transcriptList.manuallyCreatedTranscripts

SameSlot(i, j) ==
    /\ (Tracks[i].kind = "asr") = (Tracks[j].kind = "asr")
    /\ Tracks[i].languageCode = Tracks[j].languageCode

\* C17: buildTranscriptList puts each track of kind 'asr' into the generated
\* map and every other track into the manually-created map under the
\* track's language code, and of several tracks of one map and one code the
\* last in manifest order is the one kept.
C17_RoutedLastWins ==
    built
        => /\ \A i \in DOMAIN Tracks :
                 /\ Tracks[i].languageCode \in DOMAIN MapOf(Tracks[i])
                 /\ (heap[MapOf(Tracks[i])[Tracks[i].languageCode]].url = Tracks[i].baseUrl)
                       <=> (\A j \in DOMAIN Tracks : SameSlot(i, j) => j <= i)
           /\ \A c \in DOMAIN transcriptList.generatedTranscripts :
                 \E i \in DOMAIN Tracks : Tracks[i].kind = "asr" /\ Tracks[i].languageCode = c
           /\ \A c \in DOMAIN transcriptList.manuallyCreatedTranscripts :
                 \E i \in DOMAIN Tracks : Tracks[i].kind # "asr" /\ Tracks[i].languageCode = c

C17_Witness ==
    /\ built
    /\ Len(Tracks) = 2
    /\ SameSlot(1, 2)
    /\ Tracks[1].isTranslatable # Tracks[2].isTranslatable
    /\ heap[MapOf(Tracks[1])[Tracks[1].languageCode]] = created[2]

BothMaps ==
    DOMAIN transcriptList.manuallyCreatedTranscripts \cap DOMAIN transcriptList.generatedTranscripts

\* C18 as stated: no language code is a key of both maps of a catalog.
C18_AsStated == built => BothMaps = {}

\* C18 amended: a language code is a key of both maps exactly when the
\* manifest has a track of kind 'asr' and a track of another kind with that
\* code.
C18_BothMapsIffBothKinds ==
    built
        => \A c \in TrackCodes :
              c \in BothMaps
                 <=> /\ \E i \in DOMAIN Tracks : Tracks[i].kind = "asr" /\ Tracks[i].languageCode = c
                     /\ \E i \in DOMAIN Tracks : Tracks[i].kind # "asr" /\ Tracks[i].languageCode = c

C18_Witness ==
    /\ built
    /\ "en" \in BothMaps
    /\ transcriptList.manuallyCreatedTranscripts["en"] # transcriptList.generatedTranscripts["en"]

\* the manifest's translation-language list, entry by entry
WholeList(list) ==
    /\ Len(list) = Len(captionsJson.translationLanguages)
    /\ \A k \in DOMAIN list :
          /\ list[k].language_code = captionsJson.translationLanguages[k].languageCode
          /\ list[k].language = captionsJson.translationLanguages[k].languageName

\* C20: a handle built from a track with isTranslatable set carries the
\* manifest's whole translation-language list, a handle built from any other
\* track an empty list; for every handle, built or derived, isTranslatable
\* is true exactly when its translation list is non-empty.
C20_TranslationLists ==
    built
        => /\ \A i \in DOMAIN Tracks :
                 IF Tracks[i].isTranslatable
                 THEN WholeList(heap[i].translationLanguages)
                 ELSE heap[i].translationLanguages = <<>>
           /\ \A h \in DOMAIN heap :
                 /\ isTranslatable(heap[h]) <=> heap[h].translationLanguages # <<>>
                 /\ h > Len(Tracks) => ~isTranslatable(heap[h])
                 /\ isTranslatable(heap[h])
                       <=> \E code \in RequestCodes : translate(heap[h], code).ok

C20_Witness ==
    /\ built
    /\ Len(Tracks) = 2
    /\ Tracks[1].isTranslatable
    /\ ~Tracks[2].isTranslatable
    /\ Len(heap[1].translationLanguages) = 2
    /\ Len(heap) = 3
    /\ ~isTranslatable(heap[3])

FirstPage == IF refetched = NoPage THEN html ELSE NoPage

RefetchIssued == pc = "html2"

ConsentPosted == \E i \in DOMAIN requests : requests[i].method = "POST"

\* C15: when the first page has the consent form and a token, the POST of the
\* consent step has completed and the cookie store holds the consent cookie
\* before the page re-fetch is issued, and the re-fetch request carries the
\* cookies of the store.
C15_ConsentBeforeRefetch ==
    RefetchIssued
        => /\ html.consent /\ html.token
           /\ ConsentPosted
           /\ requests[Len(requests)].target = "watch"
           /\ requests[Len(requests)].cookies = jar

\* C16: cookies stored in a session during one video's lookup are never
\* visible to the requests of another video's lookup: every lookup starts
\* with a cookie store of its own.
C16_PrivateSession ==
    /\ pc = "idle" => jar = {}
    /\ \A i \in DOMAIN requests : \A c \in requests[i].cookies : c.videoId = videoId

(***************************************************************************)
(* Properties of the per-video lookup, checked under SpecLookup.           *)
(***************************************************************************)
ExtractFailed ==
    /\ stages # <<>>
    /\ stages[Len(stages)] = Stage("extract", FALSE)

\* C3: without the captions marker extractCaptionsJson fails with
\* InvalidVideoId if the id starts with http:// or https://, else
\* TooManyRequests if the page has the reCAPTCHA marker, else
\* VideoUnavailable if it has no playabilityStatus marker, else
\* TranscriptsDisabled.
C3_ClassificationOrder ==
    (stages # <<>> /\ stages[Len(stages)].stage = "extract" /\ ~html.captions)
        => /\ ExtractFailed
           /\ result.status = "thrown"
           /\ result.error.videoId = videoId
           /\ result.error.name =
                 IF videoId \in {"http://youtu.be/v1", "https://youtu.be/v1"} THEN "InvalidVideoId"
                 ELSE IF html.recaptcha THEN "TooManyRequests"
                 ELSE IF ~html.playability THEN "VideoUnavailable"
                 ELSE "TranscriptsDisabled"

C3_Witness ==
    /\ ExtractFailed
    /\ ~html.captions
    /\ html.recaptcha
    /\ ~html.playability
    /\ result.error.name = "TooManyRequests"

Extracted ==
    /\ Len(stages) >= 2
    /\ html.captions

ExtractOutcome ==
    /\ html.json.kind = "noRenderer"
          => /\ stages[2] = Stage("extract", FALSE)
             /\ result = Failed(Throw("TranscriptsDisabled", videoId))
    /\ html.json.kind = "noCaptionTracks"
          => /\ stages[2] = Stage("extract", FALSE)
             /\ result = Failed(Throw("NoTranscriptAvailable", videoId))
    /\ html.json.kind = "manifest"
          => /\ stages[2] = Stage("extract", TRUE)
             /\ captionsJson = html.json.manifest

C19_BuildNeverFails ==
    \A i \in DOMAIN stages :
        stages[i].stage = "build"
            => /\ stages[i].ok
               /\ i = Len(stages) => Len(requests) = 1

ExpectedStages ==
    <<"pageFetch", "extract", "build">>
    \o (IF options.listTranscripts THEN <<>>
        ELSE <<"find">> \o (IF options.translate # "" THEN <<"translate">> ELSE <<>>) \o <<"cueFetch">>)

CueRequested == \E i \in DOMAIN requests : requests[i].target = "cue"

\* C10: the stages of a lookup run in the order page fetch, manifest
\* extraction, catalog building, resolution, optional translation, cue fetch;
\* the cue GET is issued only after all earlier stages succeeded; a failed
\* stage ends the lookup with an error and no transcript lines.
C10_StagesInOrder ==
    /\ Len(stages) <= Len(ExpectedStages)
    /\ \A i \in DOMAIN stages :
          /\ stages[i].stage = ExpectedStages[i]
          /\ i < Len(stages) => stages[i].ok
    /\ CueRequested
          => /\ Len(stages) >= Len(ExpectedStages) - 1
             /\ \A i \in 1..(Len(ExpectedStages) - 1) : stages[i].ok
    /\ (\E i \in DOMAIN stages : ~stages[i].ok)
          => /\ pc = "done"
             /\ result.status = "thrown"
             /\ result.value.lines = <<>>
    /\ (result.status = "returned" /\ result.value.kind = "lines")
          => /\ Len(stages) = Len(ExpectedStages)
             /\ \A i \in DOMAIN stages : stages[i].ok

C10_Witness ==
    /\ pc = "done"
    /\ CueRequested
    /\ options.translate # ""
    /\ stages[Len(stages)] = Stage("cueFetch", FALSE)
    /\ result.status = "thrown"

(***************************************************************************)
(* Properties of the batch loop, checked under SpecBatch.                  *)
(***************************************************************************)
FirstFailure ==
    CHOOSE i \in DOMAIN lookups :
        lookups[i].state = "failed" /\ \A j \in DOMAIN lookups : lookups[j].state = "failed" => i <= j

\* C8: with continueAfterError = false the first failing lookup's failure
\* propagates to the caller, no {data, unretrievableVideos} is returned and
\* no id after the failing one is looked up.
C8_AbortOnFirstFailure ==
    (~continueAfterError /\ \E i \in DOMAIN lookups : lookups[i].state = "failed")
        => /\ batchResult.status = "thrown"
           /\ batchResult.error = lookups[FirstFailure].error
           /\ Len(lookups) = FirstFailure

C8_Witness ==
    /\ ~continueAfterError
    /\ Len(videoIds) = 3
    /\ Len(lookups) = 2
    /\ lookups[1].state = "ok"
    /\ lookups[2].state = "failed"
    /\ batchResult.status = "thrown"

RECURSIVE FailedIds(_)
FailedIds(log) ==
    IF log = <<>> THEN <<>>
    ELSE (IF Head(log).state = "failed" THEN <<Head(log).videoId>> ELSE <<>>) \o FailedIds(Tail(log))

\* C9: with continueAfterError = true getTranscripts never fails because a
\* lookup failed; it looks the ids up one at a time in input order, and
\* returns {data, unretrievableVideos} with every failed id in
\* unretrievableVideos in input order and every succeeded id a key of data.
C9_ContinueAfterError ==
    (continueAfterError /\ isArray)
        => /\ batchResult.status # "thrown"
           /\ Len(lookups) <= Len(videoIds)
           /\ \A i \in DOMAIN lookups :
                 /\ lookups[i].videoId = videoIds[i]
                 /\ lookups[i].state = "running" => i = Len(lookups)
           /\ batchResult.status = "returned"
                 => /\ Len(lookups) = Len(videoIds)
                    /\ \A i \in DOMAIN lookups : lookups[i].state # "running"
                    /\ batchResult.unretrievableVideos = FailedIds(lookups)
                    /\ \A i \in DOMAIN lookups :
                          lookups[i].state = "ok" => videoIds[i] \in DOMAIN batchResult.data

C9_Witness ==
    /\ continueAfterError
    /\ batchResult.status = "returned"
    /\ Len(lookups) = 3
    /\ lookups[1].state = "failed"
    /\ lookups[2].state = "ok"
    /\ lookups[3].state = "failed"
    /\ lookups[1].videoId # lookups[3].videoId

\* ---------------------------------------------------------------------
\* C21: fetching a handle issues one GET of the handle's URL, a second GET
\* of the same URL with Accept-Language en-US only after a first response
\* that was not successful, never a third, and the lines returned are
\* decoded from the body of the last response.
CueRequests == SelectSeq(requests, LAMBDA r : r.target = "cue")

C21_AtMostTwoGets ==
    /\ Len(CueRequests) <= 2
    /\ Len(responses) <= Len(CueRequests)
    /\ \A i \in DOMAIN CueRequests :
          /\ CueRequests[i].method = "GET"
          /\ CueRequests[i].url = heap[transcript].url
    /\ Len(CueRequests) = 2 =>
          /\ CueRequests[2].acceptLanguage
          /\ Len(responses) >= 1
          /\ ~responses[1].ok
    /\ (pc = "done" /\ result.status = "returned" /\ result.value.kind = "lines") =>
          /\ Len(responses) = Len(CueRequests)
          /\ responses[Len(responses)].doc.wellFormed
          /\ result.value.lines = parse(unescape(responses[Len(responses)].doc))

C21_Witness ==
    /\ pc = "done"
    /\ result.status = "returned"
    /\ result.value.kind = "lines"
    /\ Len(CueRequests) = 2
    /\ ~responses[2].ok
    /\ responses[1].doc # responses[2].doc
    /\ Len(result.value.lines) = 2

\* ---------------------------------------------------------------------
\* C22: decoding a subtitle document yields exactly one line per <text>
\* element, in document order, neither sorted nor deduplicated; a line's
\* start is the element's start attribute and its duration the dur
\* attribute, or 0 when the element has none.
DecodedDocument == responses[Len(responses)].doc

C22_OneLinePerElement ==
    (pc = "done" /\ result.status = "returned" /\ result.value.kind = "lines") =>
        /\ Len(result.value.lines) = Len(DecodedDocument.texts)
        /\ \A k \in DOMAIN DecodedDocument.texts :
              /\ result.value.lines[k].start = DecodedDocument.texts[k].start
              /\ result.value.lines[k].duration =
                    (IF DecodedDocument.texts[k].hasDur THEN DecodedDocument.texts[k].dur ELSE 0)
              /\ result.value.lines[k].text = textContent(unescape(DecodedDocument).texts[k].text)

C22_Witness ==
    /\ pc = "done"
    /\ result.status = "returned"
    /\ result.value.kind = "lines"
    /\ Len(result.value.lines) = 2
    /\ result.value.lines[1].start > result.value.lines[2].start
    /\ result.value.lines[2].duration = 0
    /\ result.value.lines[1].duration = 3

\* ---------------------------------------------------------------------
\* The transcript parser on its own: createTranscriptParser(preserveFormatting)
\* applied to a document.

\* the tags getHtmlRegex names as formatting tags, and the tags of the model
FormattingTags == {"strong", "em", "b", "i", "mark", "small", "del", "ins", "sub", "sup"}
CueTags == {"b", "font"}

\* getHtmlRegex: the pattern the parser prepares
getHtmlRegex(preserve) ==
    IF preserve THEN [removes |-> "tagsNotInFormattingTags"] ELSE [removes |-> "everyTag"]

CuePieces ==
    {Chars("a"), Percent("b")}
    \cup {EntityTag(t) : t \in CueTags} \cup {ElementTag(t) : t \in CueTags}

ParseDocs ==
    {[wellFormed |-> TRUE, texts |-> t] :
        t \in SeqsUpTo({[start |-> 1, hasDur |-> TRUE, dur |-> 3, text |-> x] :
                            x \in SeqsUpTo(CuePieces, MaxPieces)}, MaxParseCues)}
    \cup {NoDocument}

\* createTranscriptParser(preserveFormatting).parse(plainData): htmlRegex is
\* prepared and parse does not use it
createTranscriptParser(preserve, doc) ==
    LET htmlRegex == getHtmlRegex(preserve)
    IN IF doc.wellFormed
       THEN [status |-> "returned", lines |-> parse(doc)]
       ELSE [status |-> "thrown", lines |-> <<>>]

ParseCall ==
    /\ parsed.status = "pending"
    /\ parsed' = createTranscriptParser(preserveFormatting, unescape(plainData))
    /\ UNCHANGED <<variant, videoId, libVars, netVars, lookupVars, batchVars, cueVars, cliVars,
                   preserveFormatting, plainData>>

InitParse ==
    /\ variant \in Variants
    /\ videoId = "v1"
    /\ captionsJson = EmptyManifest
    /\ LibIdle
    /\ NetIdle
    /\ LookupIdle
    /\ BatchIdle
    /\ responses = <<>>
    /\ preserveFormatting \in BOOLEAN
    /\ plainData \in ParseDocs
    /\ parsed = NotParsed
    /\ video_ids = <<>>
    /\ position = 0
    /\ transcripts = <<>>
    /\ exceptions = <<>>
    /\ output = NoOutput
    /\ cookieFileRead = FALSE
    /\ attempts = <<>>

NextParse == ParseCall

SpecParse == InitParse /\ [][NextParse]_vars

\* ---------------------------------------------------------------------
\* C23: for a cue text mixing allow-listed inline tags and other tags,
\* decoding with preserveFormatting = false yields text with no tag left,
\* and decoding with preserveFormatting = true yields text in which every
\* allow-listed tag is kept and every other tag is removed.
\* the tags of a cue text as written in the document, in order
TagsWritten(text) ==
    LET tags == SelectSeq(text, LAMBDA x : x.kind \in {"entity", "element"})
    IN [k \in DOMAIN tags |-> tags[k].tag]
TagsLeft(text) ==
    LET tags == SelectSeq(text, LAMBDA x : x.kind = "tag")
    IN [k \in DOMAIN tags |-> tags[k].tag]

C23_AsStated ==
    parsed.status = "returned" =>
        \A i \in DOMAIN parsed.lines :
            TagsLeft(parsed.lines[i].text) =
                (IF preserveFormatting
                 THEN SelectSeq(TagsWritten(plainData.texts[i].text), LAMBDA t : t \in FormattingTags)
                 ELSE <<>>)

\* ---------------------------------------------------------------------
\* C24: a lookup whose watch-page GET or cue-document GET fails at the
\* transport level fails with the kind YouTubeRequestFailed, carrying the
\* video id.
\* the last request of the lookup was rejected instead of answered
TransportFailed ==
    /\ pc = "done"
    /\ stages # <<>>
    /\ ~stages[Len(stages)].ok
    /\ \/ stages[Len(stages)].stage = "pageFetch"
       \/ /\ stages[Len(stages)].stage = "cueFetch"
          /\ Len(responses) < Len(CueRequests)

C24_AsStated ==
    TransportFailed =>
        /\ result.status = "thrown"
        /\ result.error.name = "YouTubeRequestFailed"
        /\ result.error.videoId = videoId

\* ---------------------------------------------------------------------
\* C25: every GET of the watch page made by the page fetcher carries the
\* header Accept-Language: en-US, the first GET of a lookup as well as the
\* re-fetch after consent negotiation.
C25_AsStated ==
    \A i \in DOMAIN requests :
        (requests[i].method = "GET" /\ requests[i].target = "watch") => requests[i].acceptLanguage

\* ---------------------------------------------------------------------
\* C26: when the page has the captions marker, extractCaptionsJson never
\* fails with InvalidVideoId, TooManyRequests or VideoUnavailable, whatever
\* the id looks like and whatever reCAPTCHA or playability markers the page
\* has; the only classified failures there are TranscriptsDisabled and
\* NoTranscriptAvailable.
\* the failure kinds made by the error module
ClassifiedKinds ==
    {"CouldNotRetrieveTranscript", "InvalidVideoId", "TooManyRequests", "VideoUnavailable", "TranscriptsDisabled",
     "NoTranscriptAvailable", "NoTranscriptFound", "NotTranslatable",
     "TranslationLanguageNotAvailable", "FailedToCreateConsentCookie",
     "CookiePathInvalid", "CookiesInvalid", "YouTubeRequestFailed"}

C26_MarkerPathFailures ==
    (html.captions /\ ExtractFailed) =>
        /\ result.status = "thrown"
        /\ result.error = extractCaptionsJson(html, videoId).error
        /\ result.error.name \notin {"InvalidVideoId", "TooManyRequests", "VideoUnavailable"}
        /\ result.error.name \in ClassifiedKinds =>
              result.error.name \in {"TranscriptsDisabled", "NoTranscriptAvailable"}

C26_Witness ==
    /\ html.captions
    /\ html.recaptcha
    /\ ~html.playability
    /\ videoId \in HttpIds
    /\ ExtractFailed
    /\ result.error.name = "NoTranscriptAvailable"

\* ---------------------------------------------------------------------
\* C27: in the result of getTranscripts with continueAfterError = true, for
\* any input list and any pattern of success and failure, no id is both a
\* key of data and an element of unretrievableVideos, and the number of
\* keys of data plus the length of unretrievableVideos is the number of
\* input ids.
Elements(list) == {list[i] : i \in DOMAIN list}

Partitioned ==
    /\ DOMAIN batchResult.data \cap Elements(batchResult.unretrievableVideos) = {}
    /\ Cardinality(DOMAIN batchResult.data) + Len(batchResult.unretrievableVideos) = Len(videoIds)

\* the statement as made, lists that repeat an id included
C27_AsStated ==
    (continueAfterError /\ batchResult.status = "returned") => Partitioned

\* the statement for input lists that do not repeat an id
C27_DistinctIdsPartitioned ==
    (/\ continueAfterError
     /\ batchResult.status = "returned"
     /\ Cardinality(Elements(videoIds)) = Len(videoIds)) => Partitioned

C27_Witness ==
    /\ continueAfterError
    /\ batchResult.status = "returned"
    /\ Cardinality(Elements(videoIds)) = 3
    /\ Cardinality(DOMAIN batchResult.data) = 2
    /\ Len(batchResult.unretrievableVideos) = 1

\* ---------------------------------------------------------------------
\* C28: when the first fetched page has no consent-form marker,
\* fetchVideoHtml returns that page, performs no consent negotiation and
\* does not fetch the page again, and nothing is added to the session's
\* cookie store.
\* the first fetchHtml has returned a page without the consent form
FirstPageWithoutConsent == FirstPage.serial > 0 /\ ~FirstPage.consent

CliIds == {"v1", "v2"}
Formats == {"pretty", "webvtt"}
SupportedFormats == {"json", "pretty", "text", "textMultiple"}

CliOptions ==
    {[NoOptions EXCEPT !.listTranscripts = lt, !.excludeGenerated = eg,
                       !.excludeManuallyCreated = em, !.cookies = c, !.format = f] :
        lt \in BOOLEAN, eg \in BOOLEAN, em \in BOOLEAN, c \in {"", "cookies.txt"}, f \in Formats}

\* the lines a placeholder cue document decodes to
CliLines == <<[text |-> <<Chars("a")>>, start |-> 1, duration |-> 3]>>

Settles(value) == [ok |-> TRUE, value |-> value, error |-> NoError]
Rejects(err) == [ok |-> FALSE, value |-> NoValue, error |-> err]

\* how fetchTranscript(videoId, ...) may settle
fetchTranscript(vid, opts) ==
    {Rejects(Throw("TransportError", "")), Rejects(Throw("TranscriptsDisabled", vid)),
     IF opts.listTranscripts THEN Settles(Listing) ELSE Settles(Lines(CliLines))}

\* formatTranscriptTimestamps of the fetch family: transcript.map(...), which
\* a listing (a string) does not have
formatTranscriptTimestamps(value) ==
    IF value.kind = "lines"
    THEN Settles(Lines([i \in DOMAIN value.lines |->
                          [value.lines[i] EXCEPT !.start = [timestamp |-> @],
                                                 !.duration = [seconds |-> @]]]))
    ELSE Rejects(Throw("TypeError", ""))

\* the body of the try block once fetchTranscript has resolved
TryBody(family, value) ==
    IF family = "fetch" THEN formatTranscriptTimestamps(value) ELSE Settles(value)

FailurePart(err) == [kind |-> "failure", error |-> err, transcripts |-> <<>>]
FormattedPart(list) == [kind |-> "formatted", error |-> NoError, transcripts |-> list]
EmptyPart == [kind |-> "empty", error |-> NoError, transcripts |-> <<>>]
UsagePart == [kind |-> "usage", error |-> NoError, transcripts |-> <<>>]

\* [...exceptions.map(e => e.toString()), transcripts.length ? formatter(transcripts) : '']
OutputParts(failures, list) ==
    [i \in DOMAIN failures |-> FailurePart(failures[i])]
    \o <<IF list # <<>> THEN FormattedPart(list) ELSE EmptyPart>>

\* variant of the loop that leaves at the first failure
AfterCatch_leaves(i) == Len(video_ids) + 1

\* the for loop goes on with the next id after the catch block
AfterCatch(i) == i + 1

Attempt(vid, outcome, caught) == [videoId |-> vid, outcome |-> outcome, caught |-> caught]

\* fetchAndFormatTranscripts(options) is called, up to the first fetchTranscript
CliCall ==
    /\ output.status = "pending"
    /\ IF options.excludeGenerated /\ options.excludeManuallyCreated
       THEN /\ output' = [NoOutput EXCEPT !.status = "returned", !.parts = <<UsagePart>>]
            /\ UNCHANGED <<position, cookieFileRead>>
       ELSE IF options.cookies = ""
       THEN /\ output' = [NoOutput EXCEPT !.status = "looping"]
            /\ position' = 1
            /\ cookieFileRead' = cookieFileRead
       ELSE /\ cookieFileRead' = TRUE
            /\ \/ /\ output' = [NoOutput EXCEPT !.status = "thrown", !.error = Throw("Error", "")]
                  /\ position' = position
               \/ IF variant = "fetch"
                  THEN /\ output' = [NoOutput EXCEPT !.status = "thrown", !.error = Throw("TypeError", "")]
                       /\ position' = position
                  ELSE /\ output' = [NoOutput EXCEPT !.status = "looping"]
                       /\ position' = 1
    /\ UNCHANGED <<variant, videoId, libVars, netVars, lookupVars, batchVars, cueVars, parseVars,
                   video_ids, transcripts, exceptions, attempts>>

\* the awaited fetchTranscript resolves: the rest of the try block runs
FetchTranscriptResolves ==
    /\ output.status = "looping"
    /\ position \in DOMAIN video_ids
    /\ \E r \in fetchTranscript(video_ids[position], options) :
          /\ r.ok
          /\ LET done == TryBody(variant, r.value)
             IN IF done.ok
                THEN /\ transcripts' = Append(transcripts, done.value)
                     /\ exceptions' = exceptions
                     /\ attempts' = Append(attempts, Attempt(video_ids[position], r, NoError))
                ELSE /\ exceptions' = Append(exceptions, done.error)
                     /\ transcripts' = transcripts
                     /\ attempts' = Append(attempts, Attempt(video_ids[position], r, done.error))
    /\ position' = position + 1
    /\ UNCHANGED <<variant, videoId, libVars, netVars, lookupVars, batchVars, cueVars, parseVars,
                   video_ids, output, cookieFileRead>>

\* the awaited fetchTranscript rejects: the catch block runs
FetchTranscriptRejects ==
    /\ output.status = "looping"
    /\ position \in DOMAIN video_ids
    /\ \E r \in fetchTranscript(video_ids[position], options) :
          /\ ~r.ok
          /\ exceptions' = Append(exceptions, r.error)
          /\ attempts' = Append(attempts, Attempt(video_ids[position], r, r.error))
    /\ position' = AfterCatch(position)
    /\ UNCHANGED <<variant, videoId, libVars, netVars, lookupVars, batchVars, cueVars, parseVars,
                   video_ids, transcripts, output, cookieFileRead>>

\* past the loop: FormatterFactory(format), then the joined output
FormatOutput ==
    /\ output.status = "looping"
    /\ position > Len(video_ids)
    /\ output' = IF options.format \in SupportedFormats
                 THEN [NoOutput EXCEPT !.status = "returned", !.parts = OutputParts(exceptions, transcripts)]
                 ELSE [NoOutput EXCEPT !.status = "thrown", !.error = Throw("Error", "")]
    /\ UNCHANGED <<variant, videoId, libVars, netVars, lookupVars, batchVars, cueVars, parseVars,
                   video_ids, position, transcripts, exceptions, attempts, cookieFileRead>>

InitCli ==
    /\ variant \in Variants
    /\ videoId = "v1"
    /\ captionsJson = EmptyManifest
    /\ LibIdle
    /\ NetIdle
    /\ BatchIdle
    /\ options \in CliOptions
    /\ transcript = 0
    /\ stages = <<>>
    /\ responses = <<>>
    /\ preserveFormatting = FALSE
    /\ plainData = NoDocument
    /\ parsed = NotParsed
    /\ video_ids \in SeqsUpTo(CliIds, MaxVideos)
    /\ position = 0
    /\ transcripts = <<>>
    /\ exceptions = <<>>
    /\ output = NoOutput
    /\ cookieFileRead = FALSE
    /\ attempts = <<>>

NextCli ==
    \/ CliCall
    \/ FetchTranscriptResolves
    \/ FetchTranscriptRejects
    \/ FormatOutput

SpecCli == InitCli /\ [][NextCli]_vars

\* ---------------------------------------------------------------------
\* C29: the loop of fetchAndFormatTranscripts always continues after an
\* error: every video id given is looked up exactly once, in input order,
\* whatever lookups failed before it; each failure is collected, and in the
\* output all collected failures, in the order they occurred, come before
\* the formatted transcripts of the videos that succeeded.
RECURSIVE CaughtIn(_)
CaughtIn(log) ==
    IF log = <<>> THEN <<>>
    ELSE (IF Head(log).caught # NoError THEN <<Head(log).caught>> ELSE <<>>) \o CaughtIn(Tail(log))

Succeeded(log) == SelectSeq(log, LAMBDA a : a.caught = NoError)

\* the loop has been entered
LoopEntered == position > 0

C29_LoopContinues ==
    LoopEntered =>
        /\ Len(attempts) = position - 1
        /\ Len(attempts) <= Len(video_ids)
        /\ \A i \in DOMAIN attempts :
              /\ attempts[i].videoId = video_ids[i]
              /\ ~attempts[i].outcome.ok => attempts[i].caught = attempts[i].outcome.error
        /\ exceptions = CaughtIn(attempts)
        /\ Len(transcripts) = Len(Succeeded(attempts))
        /\ output.status \in {"returned", "thrown"} => Len(attempts) = Len(video_ids)
        /\ output.status = "returned" =>
              /\ Len(output.parts) = Len(exceptions) + 1
              /\ \A i \in DOMAIN exceptions : output.parts[i] = FailurePart(exceptions[i])
              /\ output.parts[Len(output.parts)] =
                    (IF transcripts # <<>> THEN FormattedPart(transcripts) ELSE EmptyPart)

C29_Witness ==
    /\ output.status = "returned"
    /\ Len(video_ids) = 3
    /\ Len(attempts) = 3
    /\ video_ids[1] = video_ids[3]
    /\ ~attempts[1].outcome.ok
    /\ attempts[2].outcome.ok
    /\ ~attempts[3].outcome.ok
    /\ attempts[1].outcome.error # attempts[3].outcome.error
    /\ Len(transcripts) = 1
    /\ output.parts[3].kind = "formatted"

\* ---------------------------------------------------------------------
\* C30: with both exclude flags set fetchAndFormatTranscripts returns
\* without reading the cookie file and without any request; otherwise
\* --exclude-generated resolves with the manual-only resolver,
\* --exclude-manually-created with the generated-only resolver, and neither
\* flag with findTranscript.
BothExcluded == options.excludeGenerated /\ options.excludeManuallyCreated

\* what the resolver the flags call for answers on the catalog of the video
FlaggedResolver ==
    IF options.excludeGenerated THEN findManuallyCreatedTranscript(transcriptList, options.languages)
    ELSE IF options.excludeManuallyCreated THEN findGeneratedTranscript(transcriptList, options.languages)
    ELSE findTranscript(transcriptList, options.languages)

C30_FlagsChooseResolver ==
    /\ BothExcluded =>
          /\ requests = <<>>
          /\ ~cookieFileRead
          /\ stages = <<>>
          /\ pc \in {"idle", "done"}
          /\ pc = "done" => result = Returned(UsageText)
    /\ (~BothExcluded /\ Len(stages) >= 4) =>
          /\ stages[4].stage = "find"
          /\ stages[4].ok = FlaggedResolver.ok
          /\ ~stages[4].ok => result = Failed(FlaggedResolver.error)
          /\ (stages[4].ok /\ (options.translate = "" \/ pc = "translate")) =>
                transcript = FlaggedResolver.value

C30_Witness ==
    /\ BothExcluded
    /\ options.cookies # ""
    /\ pc = "done"
    /\ result = Returned(UsageText)

====
